---- MODULE Spec2Model ----
(***************************************************************************)
(* Model of MarkdownConverter (src/markdown_converter.py): the parser      *)
(* parse_markdown_to_blocks and the serializer convert_blocks_to_markdown. *)
(*                                                                         *)
(* A Python str is a sequence of one-character strings.  Python indices    *)
(* are 0-based and are kept so: the element lines[i] of the code is        *)
(* lines[i + 1] here.  A Notion block {"type": t, t: {...}} is a record    *)
(* with the field type and the fields of its payload (rich_text, and       *)
(* language or checked where the payload has them); a rich-text element    *)
(* {"type": "text", "text": {"content": c}} is [has_text, content].        *)
(***************************************************************************)
EXTENDS Integers, Sequences, FiniteSets, TLC

VARIABLES
    md,                 \* parse_markdown_to_blocks: the argument md
    lines,              \* md.strip().split("\n")
    blocks,             \* the list of blocks built so far
    title,              \* the title ("" when no title line was found)
    content_start_idx,  \* index of the first body line
    i,                  \* the while loop's line index
    code_lines,         \* lines gathered inside the open code fence
    language,           \* language of the open code fence
    err,                \* TRUE once an IndexError was raised
    origin,             \* history: origin[j] is the index of the line whose
                        \* iteration appended blocks[j]
    visited,            \* history: <<k, role>> for every line k the while
                        \* loops read: "outside" a code fence (line 25),
                        \* "inside" one (line 63) or "closing" one (line 62)
    in_blocks,          \* convert_blocks_to_markdown: the argument blocks
    in_title,           \* convert_blocks_to_markdown: the argument title
    md_lines,           \* the list md_lines
    bi,                 \* number of blocks the for loop has consumed
    out,                \* the returned string
    starts,             \* history: starts[j] is len(md_lines) when the for
                        \* loop reached in_blocks[j]
    pc,                 \* position in the running call
    markdown_parser,    \* self.markdown_parser, the converter's only field
    suspended,          \* the frames of the calls in progress on the
                        \* converter that are not running now
    running,            \* which call the variables above are the frame of
    notion_client,      \* NotionMCPServer: self.notion_client is set
    workspace,          \* the Notion workspace behind the API
    request,            \* the handler call in progress and its arguments
    resources,          \* handle_list_resources: the list resources
    response,           \* what the handler returned or raised
    api_log,            \* history: the Notion API calls the handler made
    spc                 \* position in the handler

vars == <<md, lines, blocks, title, content_start_idx, i, code_lines, language,
          err, origin, visited, in_blocks, in_title, md_lines, bi, out, starts,
          pc, markdown_parser, suspended, running, notion_client, workspace,
          request, resources, response, api_log, spc>>

\* the variables of NotionMCPServer and of a call to one of its handlers
server_vars == <<notion_client, workspace, request, resources, response,
                 api_log, spc>>

\* the converter object, and which calls on it are in progress
converter_vars == <<markdown_parser, suspended, running>>

parser_vars == <<md, lines, blocks, title, content_start_idx, i, code_lines,
                 language, err, origin, visited>>

serializer_vars == <<in_blocks, in_title, md_lines, bi, out, starts>>

----------------------------------------------------------------------------
(* Bounds of the model.                                                    *)

MaxLines == 3       \* an input has at most MaxLines lines
MaxBlocks == 3      \* a document has at most MaxBlocks blocks

----------------------------------------------------------------------------
(* Python str operations.                                                  *)

NL == "\n"

\* str.isspace for one character
isspace(c) == c \in {" ", "\t", "\n", "\r"}

\* str.isdigit for one character
isdigit(c) == c \in {"0", "1", "2", "3", "4", "5", "6", "7", "8", "9"}

\* s.strip()
strip(s) ==
    LET keep == {j \in 1..Len(s) : ~isspace(s[j])}
    IN  IF keep = {} THEN <<>>
        ELSE LET lo == CHOOSE j \in keep : \A k \in keep : j <= k
                 hi == CHOOSE j \in keep : \A k \in keep : k <= j
             IN  SubSeq(s, lo, hi)

\* s.startswith(p)
startswith(s, p) == Len(s) >= Len(p) /\ SubSeq(s, 1, Len(p)) = p

\* s[n:]
slice_from(s, n) == SubSeq(s, n + 1, Len(s))

\* s.find(p): 0-based index of the first occurrence of p in s, -1 when absent
find(s, p) ==
    LET at == {j \in 0..(Len(s) - Len(p)) : SubSeq(s, j + 1, j + Len(p)) = p}
    IN  IF at = {} THEN -1 ELSE CHOOSE j \in at : \A k \in at : j <= k

\* p in s
contains(s, p) == find(s, p) >= 0

\* s.split("\n")
RECURSIVE split_lines(_)
split_lines(s) ==
    LET n == find(s, <<NL>>)
    IN  IF n < 0 THEN <<s>>
        ELSE <<SubSeq(s, 1, n)>> \o split_lines(slice_from(s, n + 1))

\* "\n".join(ls)
RECURSIVE join_lines(_)
join_lines(ls) ==
    IF ls = <<>> THEN <<>>
    ELSE IF Len(ls) = 1 THEN ls[1]
    ELSE ls[1] \o <<NL>> \o join_lines(Tail(ls))

----------------------------------------------------------------------------
(* The markers of the markdown subset.                                     *)

H1_MARK == <<"#", " ">>
H2_MARK == <<"#", "#", " ">>
H3_MARK == <<"#", "#", "#", " ">>
BULLET_MARK == <<"-", " ">>
ORDINAL_MARK == <<"1", ".", " ">>
DOT_SPACE == <<".", " ">>
\* The grave accent U+0060 is named, since SANY does not read it inside a string.
BACKTICK == "BACKTICK"
FENCE == <<BACKTICK, BACKTICK, BACKTICK>>
PLAIN_TEXT == <<"p", "l", "a", "i", "n", " ", "t", "e", "x", "t">>
QUOTE_MARK == <<">", " ">>
TODO_CHECKED == <<"-", " ", "[", "x", "]", " ">>
TODO_UNCHECKED == <<"-", " ", "[", " ", "]", " ">>

\* [{"type": "text", "text": {"content": c}}]
rich_text_of(c) == <<[has_text |-> TRUE, content |-> c]>>

\* {"type": t, t: {"rich_text": [{"type": "text", "text": {"content": c}}]}}
text_block(t, c) == [type |-> t, rich_text |-> rich_text_of(c)]

\* code_block, had line 71 stored "\n".join(code_lines).strip()
code_block_stripped(c, l) ==
    [type |-> "code", rich_text |-> rich_text_of(strip(c)), language |-> l]

\* {"type": "code", "code": {"rich_text": [...], "language": l}}
code_block(c, l) == [type |-> "code", rich_text |-> rich_text_of(c), language |-> l]

----------------------------------------------------------------------------
(* parse_markdown_to_blocks.                                               *)

\* title_index, had the for loop no break: the last such line wins
title_index_last(ls) ==
    LET at == {j \in 0..(Len(ls) - 1) : startswith(ls[j + 1], H1_MARK)}
    IN  IF at = {} THEN -1 ELSE CHOOSE j \in at : \A k \in at : k <= j

\* lines 14-18: the index of the first line that starts with "# ", -1 if none
title_index(ls) ==
    LET at == {j \in 0..(Len(ls) - 1) : startswith(ls[j + 1], H1_MARK)}
    IN  IF at = {} THEN -1 ELSE CHOOSE j \in at : \A k \in at : j <= k

\* line 24: the condition of the outer while loop
while_cond(k, ls) == k < Len(ls)

\* numbered_cond without its first operand: line[0].isdigit() and ". " in line
numbered_cond_unguarded(line) ==
    IF Len(line) = 0 THEN [raised |-> TRUE, value |-> FALSE]
    ELSE [raised |-> FALSE,
          value |-> isdigit(line[1]) /\ contains(line, DOT_SPACE)]

\* line 49: line.strip() and line[0].isdigit() and ". " in line, evaluated
\* left to right; line[0] raises IndexError on an empty line
numbered_cond(line) ==
    IF strip(line) = <<>> THEN [raised |-> FALSE, value |-> FALSE]
    ELSE IF Len(line) = 0 THEN [raised |-> TRUE, value |-> FALSE]
    ELSE [raised |-> FALSE,
          value |-> isdigit(line[1]) /\ contains(line, DOT_SPACE)]

\* branch without the elif of line 35: a "### " line is not a heading
branch_without_h3(line) ==
    IF startswith(line, H2_MARK) THEN "heading_2"
    ELSE IF startswith(line, BULLET_MARK) THEN "bulleted_list_item"
    ELSE IF numbered_cond(line).raised THEN "raise"
    ELSE IF numbered_cond(line).value THEN "numbered_list_item"
    ELSE IF startswith(line, FENCE) THEN "fence"
    ELSE IF strip(line) # <<>> THEN "paragraph"
    ELSE "blank"

\* branch with line 75 as "elif line:": a line of whitespace is a paragraph
branch_untrimmed(line) ==
    IF startswith(line, H2_MARK) THEN "heading_2"
    ELSE IF startswith(line, H3_MARK) THEN "heading_3"
    ELSE IF startswith(line, BULLET_MARK) THEN "bulleted_list_item"
    ELSE IF numbered_cond(line).raised THEN "raise"
    ELSE IF numbered_cond(line).value THEN "numbered_list_item"
    ELSE IF startswith(line, FENCE) THEN "fence"
    ELSE IF line # <<>> THEN "paragraph"
    ELSE "blank"

\* branch, had the loop tested the prefixes on line.strip(), as
\* _markdown_to_blocks of mcp_server.py does
branch_on_trimmed(line) ==
    LET l == strip(line)
    IN  IF startswith(l, H2_MARK) THEN "heading_2"
        ELSE IF startswith(l, H3_MARK) THEN "heading_3"
        ELSE IF startswith(l, BULLET_MARK) THEN "bulleted_list_item"
        ELSE IF numbered_cond(l).raised THEN "raise"
        ELSE IF numbered_cond(l).value THEN "numbered_list_item"
        ELSE IF startswith(l, FENCE) THEN "fence"
        ELSE IF l # <<>> THEN "paragraph"
        ELSE "blank"

\* branch, had the loop skipped every line that starts with "# "
branch_skipping_h1(line) ==
    IF startswith(line, H1_MARK) THEN "blank"
    ELSE IF startswith(line, H2_MARK) THEN "heading_2"
    ELSE IF startswith(line, H3_MARK) THEN "heading_3"
    ELSE IF startswith(line, BULLET_MARK) THEN "bulleted_list_item"
    ELSE IF numbered_cond(line).raised THEN "raise"
    ELSE IF numbered_cond(line).value THEN "numbered_list_item"
    ELSE IF startswith(line, FENCE) THEN "fence"
    ELSE IF strip(line) # <<>> THEN "paragraph"
    ELSE "blank"

\* lines 28-78: the branch of the if/elif chain that a line takes
branch(line) ==
    IF startswith(line, H2_MARK) THEN "heading_2"
    ELSE IF startswith(line, H3_MARK) THEN "heading_3"
    ELSE IF startswith(line, BULLET_MARK) THEN "bulleted_list_item"
    ELSE IF numbered_cond(line).raised THEN "raise"
    ELSE IF numbered_cond(line).value THEN "numbered_list_item"
    ELSE IF startswith(line, FENCE) THEN "fence"
    ELSE IF strip(line) # <<>> THEN "paragraph"
    ELSE "blank"

\* after_dot_space as line.rsplit(". ", 1)[1]: the last ". " splits the line
after_last_dot_space(line) ==
    LET at == {j \in 0..(Len(line) - 2) : SubSeq(line, j + 1, j + 2) = DOT_SPACE}
    IN  slice_from(line, (CHOOSE j \in at : \A k \in at : k <= j) + 2)

\* line 50: line.split(". ", 1)[1]
after_dot_space(line) == slice_from(line, find(line, DOT_SPACE) + Len(DOT_SPACE))

\* block_of, had the branches stored the remainder of the line as it is
block_of_untrimmed(line, kind) ==
    CASE kind = "heading_2" -> text_block("heading_2", slice_from(line, 3))
      [] kind = "heading_3" -> text_block("heading_3", slice_from(line, 4))
      [] kind = "bulleted_list_item" ->
            text_block("bulleted_list_item", slice_from(line, 2))
      [] kind = "numbered_list_item" ->
            text_block("numbered_list_item", after_dot_space(line))
      [] kind = "paragraph" -> text_block("paragraph", line)

\* block_of, had the parser a quote variant for the lines that start with
\* "> "
block_of_with_quote(line, kind) ==
    CASE kind = "heading_2" ->
            text_block("heading_2", strip(slice_from(line, 3)))
      [] kind = "heading_3" ->
            text_block("heading_3", strip(slice_from(line, 4)))
      [] kind = "bulleted_list_item" ->
            text_block("bulleted_list_item", strip(slice_from(line, 2)))
      [] kind = "numbered_list_item" ->
            text_block("numbered_list_item", strip(after_dot_space(line)))
      [] kind = "paragraph" ->
            IF startswith(line, QUOTE_MARK)
            THEN text_block("quote", strip(slice_from(line, 2)))
            ELSE text_block("paragraph", strip(line))

\* lines 29-56, 76-78: the block a branch appends
block_of(line, kind) ==
    CASE kind = "heading_2" ->
            text_block("heading_2", strip(slice_from(line, 3)))
      [] kind = "heading_3" ->
            text_block("heading_3", strip(slice_from(line, 4)))
      [] kind = "bulleted_list_item" ->
            text_block("bulleted_list_item", strip(slice_from(line, 2)))
      [] kind = "numbered_list_item" ->
            text_block("numbered_list_item", strip(after_dot_space(line)))
      [] kind = "paragraph" ->
            text_block("paragraph", strip(line))

\* fence_cond with the bound off by one: the last line is left out
fence_cond_short(k, ls) == k < Len(ls) - 1 /\ ~startswith(ls[k + 1], FENCE)

\* line 62: the condition of the code-fence loop
fence_cond(k, ls) == k < Len(ls) /\ ~startswith(ls[k + 1], FENCE)

\* code_language without the default
code_language_raw(l) == l

\* line 71: language if language else "plain text"
code_language(l) == IF l # <<>> THEN l ELSE PLAIN_TEXT

\* lines 9-23: split the trimmed input, find the title, start the scan
ParseStart ==
    /\ pc = "parse_start"
    /\ LET ls == split_lines(strip(md))
           t == title_index(ls)
       IN  /\ lines' = ls
           /\ title' = IF t >= 0 THEN strip(slice_from(ls[t + 1], 2)) ELSE <<>>
           /\ content_start_idx' = IF t >= 0 THEN t + 1 ELSE 0
           /\ i' = IF t >= 0 THEN t + 1 ELSE 0
    /\ blocks' = <<>>
    /\ origin' = <<>>
    /\ visited' = {}
    /\ pc' = "loop"
    /\ UNCHANGED <<md, code_lines, language, err>>
    /\ UNCHANGED serializer_vars
    /\ UNCHANGED converter_vars
    /\ UNCHANGED server_vars

\* lines 24-56, 75-80: one iteration of the while loop on a line that opens
\* no code fence
LoopLine ==
    /\ pc = "loop"
    /\ while_cond(i, lines)
    /\ IF i >= Len(lines)
       THEN \* lines[i] raises IndexError
            /\ err' = TRUE
            /\ pc' = "raised"
            /\ UNCHANGED <<blocks, i, origin, visited>>
       ELSE LET line == lines[i + 1]
                kind == branch(line)
            IN  /\ kind # "fence"
                /\ visited' = visited \cup {<<i, "outside">>}
                /\ IF kind = "raise"
                   THEN /\ err' = TRUE
                        /\ pc' = "raised"
                        /\ UNCHANGED <<blocks, i, origin>>
                   ELSE /\ IF kind = "blank"
                           THEN UNCHANGED <<blocks, origin>>
                           ELSE /\ blocks' = Append(blocks, block_of(line, kind))
                                /\ origin' = Append(origin, i)
                        /\ i' = i + 1
                        /\ UNCHANGED <<err, pc>>
    /\ UNCHANGED <<md, lines, title, content_start_idx, code_lines, language>>
    /\ UNCHANGED serializer_vars
    /\ UNCHANGED converter_vars
    /\ UNCHANGED server_vars

\* lines 57-60: a line that starts with the fence marker opens a code fence
OpenFence ==
    /\ pc = "loop"
    /\ while_cond(i, lines)
    /\ i < Len(lines)
    /\ branch(lines[i + 1]) = "fence"
    /\ code_lines' = <<>>
    /\ language' = strip(slice_from(lines[i + 1], 3))
    /\ visited' = visited \cup {<<i, "outside">>}
    /\ i' = i + 1
    /\ pc' = "fence"
    /\ UNCHANGED <<md, lines, blocks, title, content_start_idx, err, origin>>
    /\ UNCHANGED serializer_vars
    /\ UNCHANGED converter_vars
    /\ UNCHANGED server_vars

\* lines 62-64: one iteration of the code-fence loop
FenceLine ==
    /\ pc = "fence"
    /\ fence_cond(i, lines)
    /\ code_lines' = Append(code_lines, lines[i + 1])
    /\ visited' = visited \cup {<<i, "inside">>}
    /\ i' = i + 1
    /\ UNCHANGED <<md, lines, blocks, title, content_start_idx, language, err,
                   origin, pc>>
    /\ UNCHANGED serializer_vars
    /\ UNCHANGED converter_vars
    /\ UNCHANGED server_vars

\* lines 62, 66-74, 80: the code-fence loop ends at the closing fence or at
\* the end of the input; the code block is appended and i steps over the
\* line that ended the loop
CloseFence ==
    /\ pc = "fence"
    /\ ~fence_cond(i, lines)
    /\ blocks' = Append(blocks,
                        code_block(join_lines(code_lines), code_language(language)))
    /\ origin' = Append(origin, i - Len(code_lines) - 1)
    /\ visited' = visited \cup (IF i < Len(lines) THEN {<<i, "closing">>} ELSE {})
    /\ i' = i + 1
    /\ pc' = "loop"
    /\ UNCHANGED <<md, lines, title, content_start_idx, code_lines, language, err>>
    /\ UNCHANGED serializer_vars
    /\ UNCHANGED converter_vars
    /\ UNCHANGED server_vars

\* lines 24, 82: the while loop ends and the call returns (blocks, title)
ParseReturn ==
    /\ pc = "loop"
    /\ ~while_cond(i, lines)
    /\ pc' = "done"
    /\ UNCHANGED parser_vars
    /\ UNCHANGED serializer_vars
    /\ UNCHANGED converter_vars
    /\ UNCHANGED server_vars

----------------------------------------------------------------------------
(* Inputs of the parser: up to MaxLines lines joined by newlines, each     *)
(* line one of the forms the parser tells apart.                           *)

LineSet ==
    { <<>>,                                   \* an empty line
      <<" ">>,                                \* a line of whitespace
      <<"#", " ", "t">>,                      \* "# t"
      <<"#", "#", " ", "a">>,                 \* "## a"
      <<"#", "#", "#", " ", "a">>,            \* "### a"
      <<"-", " ", "a">>,                      \* "- a"
      <<"-", " ", "[", " ", "]", " ", "a">>,  \* "- [ ] a"
      <<">", " ", "a">>,                      \* "> a"
      <<"3", ".", " ", "a", ".", " ", "b">>,  \* "3. a. b"
      <<"A", "1", ".", " ", "a">>,            \* "A1. a"
      <<"1", "a">>,                           \* "1a"
      <<BACKTICK, BACKTICK, BACKTICK>>,       \* a bare fence
      <<BACKTICK, BACKTICK, BACKTICK, "j", "s">>,  \* a fence with a language
      <<"a">>,                                \* "a"
      <<" ", "-", " ", "a", " ">>,            \* " - a "
      <<"#", "#", " ">> }                     \* "## "

\* Longer inputs: the code-fence example of the specification's section 8,
\* a document with a title, text before it, a fence and text after it, and
\* a document with blank lines that ends in an opening fence.
Samples ==
    { << <<BACKTICK, BACKTICK, BACKTICK, "p", "y">>, <<"p", "(", "1", ")">>,
         <<" ", "p", "(", "2", ")", " ">>, <<BACKTICK, BACKTICK, BACKTICK>> >>,
      << <<"a">>, <<"#", " ", " ", "t", " ">>, <<BACKTICK, BACKTICK, BACKTICK>>,
         <<"#", "#", " ", "a">>, <<>>, <<BACKTICK, BACKTICK, BACKTICK, "j", "s">>,
         <<"-", " ", "a">>, <<"#", " ", "u">> >>,
      << <<"a">>, <<>>, <<" ">>, <<BACKTICK, BACKTICK, BACKTICK>> >>,
      << <<"-", " ", "[", "x", "]", " ", "a">>, <<">", " ", "a">>,
         <<"-", " ", "[", " ", "]", " ", "a">> >>,
      << <<" ", "-", " ">>, <<"a">> >> }

Inputs ==
    {join_lines(ls) :
        ls \in Samples \cup UNION {[1..n -> LineSet] : n \in 0..MaxLines}}

no_serializer ==
    /\ in_blocks = <<>>
    /\ in_title = <<>>
    /\ md_lines = <<>>
    /\ bi = 0
    /\ out = <<>>
    /\ starts = <<>>

\* line 6: the converter as __init__ leaves it, with one call in progress
one_call ==
    /\ markdown_parser = "mistune.create_markdown()"
    /\ suspended = <<>>
    /\ running = 1

\* no handler of the server is called
no_server_call ==
    /\ notion_client = FALSE
    /\ workspace = [databases |-> <<>>, pages |-> <<>>, created |-> <<>>]
    /\ request = [handler |-> "none"]
    /\ resources = <<>>
    /\ response = [kind |-> "none"]
    /\ api_log = <<>>
    /\ spc = "none"

no_parser ==
    /\ lines = <<>>
    /\ blocks = <<>>
    /\ title = <<>>
    /\ content_start_idx = 0
    /\ i = 0
    /\ code_lines = <<>>
    /\ language = <<>>
    /\ err = FALSE
    /\ origin = <<>>
    /\ visited = {}

\* parse_markdown_to_blocks is called on an input
Init ==
    /\ md \in Inputs
    /\ no_parser
    /\ no_serializer
    /\ pc = "parse_start"
    /\ one_call
    /\ no_server_call

Next ==
    \/ ParseStart
    \/ LoopLine
    \/ OpenFence
    \/ FenceLine
    \/ CloseFence
    \/ ParseReturn

Spec == Init /\ [][Next]_vars

----------------------------------------------------------------------------
(* convert_blocks_to_markdown.                                             *)

\* _extract_text_content, had line 150 joined the contents with " "
_extract_text_content_spaced(rich_text_list) ==
    IF rich_text_list = <<>> THEN <<>>
    ELSE LET joined[n \in 1..Len(rich_text_list)] ==
                 (IF n = 1 THEN <<>> ELSE joined[n - 1] \o <<" ">>)
                 \o rich_text_list[n].content
         IN  joined[Len(rich_text_list)]

\* lines 147-150: _extract_text_content
RECURSIVE _extract_text_content(_)
_extract_text_content(rich_text_list) ==
    IF rich_text_list = <<>> THEN <<>>
    ELSE (IF Head(rich_text_list).has_text
          THEN Head(rich_text_list).content ELSE <<>>)
         \o _extract_text_content(Tail(rich_text_list))

\* block.get(t, {}).get("rich_text", [])
rich_text(b) == IF "rich_text" \in DOMAIN b THEN b.rich_text ELSE <<>>

\* line 124: code_block.get("language", "")
language_of(b) == IF "language" \in DOMAIN b THEN b.language ELSE <<>>

\* lines 134, 137: "[x]" if todo_item.get("checked", False) else "[ ]"
checkbox_of(b) ==
    IF "checked" \in DOMAIN b /\ b.checked THEN TODO_CHECKED ELSE TODO_UNCHECKED

\* lines 94-142: the markdown form of a block, <<>> for a type with no branch
block_form(b) ==
    LET text_content == _extract_text_content(rich_text(b))
    IN  CASE b.type = "paragraph" -> <<text_content>>
          [] b.type = "heading_1" -> <<H1_MARK \o text_content>>
          [] b.type = "heading_2" -> <<H2_MARK \o text_content>>
          [] b.type = "heading_3" -> <<H3_MARK \o text_content>>
          [] b.type = "bulleted_list_item" -> <<BULLET_MARK \o text_content>>
          [] b.type = "numbered_list_item" -> <<ORDINAL_MARK \o text_content>>
          [] b.type = "code" -> <<FENCE \o language_of(b), text_content, FENCE>>
          [] b.type = "to_do" -> <<checkbox_of(b) \o text_content>>
          [] b.type = "quote" -> <<QUOTE_MARK \o text_content>>
          [] OTHER -> <<>>

\* blank_after, had the to_do branch an md_lines.append("") as well
blank_after_with_to_do(b) ==
    b.type \in {"paragraph", "heading_1", "heading_2", "heading_3", "code",
                "quote", "to_do"}

\* blank_after, had the bulleted_list_item branch an md_lines.append("")
blank_after_with_bullets(b) ==
    b.type \in {"paragraph", "heading_1", "heading_2", "heading_3", "code",
                "quote", "bulleted_list_item"}

\* blank_after, had md_lines.append("") come once, after the if chain
blank_after_every_block(b) == TRUE

\* lines 97, 102, 107, 112, 130, 143: the branches that end with
\* md_lines.append("")
blank_after(b) ==
    b.type \in {"paragraph", "heading_1", "heading_2", "heading_3", "code",
                "quote"}

\* lines 92-143: the lines one block appends to md_lines
block_lines(b) ==
    block_form(b) \o (IF blank_after(b) THEN <<<<>>>> ELSE <<>>)

\* title_lines, had line 87 read "if title is not None:"
title_lines_not_none(t) == <<H1_MARK \o t, <<>>>>

\* lines 87-89: the title line and a blank line, when the title is truthy;
\* the titles None and "" are both the empty sequence here
title_lines(t) == IF t # <<>> THEN <<H1_MARK \o t, <<>>>> ELSE <<>>

\* lines 85-89: md_lines starts with the title lines
ConvertStart ==
    /\ pc = "convert_start"
    /\ md_lines' = title_lines(in_title)
    /\ bi' = 0
    /\ pc' = "convert_loop"
    /\ UNCHANGED <<in_blocks, in_title, out, starts>>
    /\ UNCHANGED parser_vars
    /\ UNCHANGED converter_vars
    /\ UNCHANGED server_vars

\* ConvertBlock, had the loop put each block's lines before the lines
\* emitted so far (md_lines[0:0] = ...)
ConvertBlock_prepending ==
    /\ pc = "convert_loop"
    /\ bi < Len(in_blocks)
    /\ md_lines' = block_lines(in_blocks[bi + 1]) \o md_lines
    /\ bi' = bi + 1
    /\ starts' = Append(starts, Len(md_lines))
    /\ UNCHANGED <<in_blocks, in_title, out, pc>>
    /\ UNCHANGED parser_vars
    /\ UNCHANGED converter_vars
    /\ UNCHANGED server_vars

\* lines 91-143: one iteration of the for loop
ConvertBlock ==
    /\ pc = "convert_loop"
    /\ bi < Len(in_blocks)
    /\ md_lines' = md_lines \o block_lines(in_blocks[bi + 1])
    /\ bi' = bi + 1
    /\ starts' = Append(starts, Len(md_lines))
    /\ UNCHANGED <<in_blocks, in_title, out, pc>>
    /\ UNCHANGED parser_vars
    /\ UNCHANGED converter_vars
    /\ UNCHANGED server_vars

\* line 145: return "\n".join(md_lines)
ConvertReturn ==
    /\ pc = "convert_loop"
    /\ bi >= Len(in_blocks)
    /\ out' = join_lines(md_lines)
    /\ pc' = "converted"
    /\ UNCHANGED <<in_blocks, in_title, md_lines, bi, starts>>
    /\ UNCHANGED parser_vars
    /\ UNCHANGED converter_vars
    /\ UNCHANGED server_vars

\* lines 84-145: the value convert_blocks_to_markdown returns, as a function
\* of its arguments
RECURSIVE all_block_lines(_)
all_block_lines(bs) ==
    IF bs = <<>> THEN <<>>
    ELSE block_lines(Head(bs)) \o all_block_lines(Tail(bs))

convert_blocks_to_markdown(bs, t) ==
    join_lines(title_lines(t) \o all_block_lines(bs))

----------------------------------------------------------------------------
(* Inputs of the serializer: a title and up to MaxBlocks blocks.           *)

Titles == { <<>>, <<"t">> }

BlockSet ==
    { text_block("paragraph", <<"p">>),
      [type |-> "paragraph",
       rich_text |-> <<[has_text |-> TRUE, content |-> <<"p">>],
                       [has_text |-> FALSE, content |-> <<"m">>],
                       [has_text |-> TRUE, content |-> <<"q">>]>>],
      text_block("heading_1", <<"h">>),
      text_block("heading_2", <<"h">>),
      text_block("heading_3", <<"h">>),
      text_block("bulleted_list_item", <<"b">>),
      text_block("numbered_list_item", <<"n">>),
      code_block(<<"c", NL, "d">>, <<"j", "s">>),
      [type |-> "code", rich_text |-> rich_text_of(<<"c">>)],
      [type |-> "to_do", rich_text |-> rich_text_of(<<"d">>), checked |-> TRUE],
      [type |-> "to_do", rich_text |-> rich_text_of(<<"d">>)],
      text_block("quote", <<"q">>),
      [type |-> "divider"] }

Documents(bs) == UNION {[1..n -> bs] : n \in 0..MaxBlocks}

\* convert_blocks_to_markdown is called on a document
InitConvert ==
    /\ in_title \in Titles
    /\ in_blocks \in Documents(BlockSet)
    /\ md_lines = <<>>
    /\ bi = 0
    /\ out = <<>>
    /\ starts = <<>>
    /\ md = <<>>
    /\ no_parser
    /\ pc = "convert_start"
    /\ one_call
    /\ no_server_call

NextConvert ==
    \/ ConvertStart
    \/ ConvertBlock
    \/ ConvertReturn

SpecConvert == InitConvert /\ [][NextConvert]_vars

----------------------------------------------------------------------------
(* Round trip: a document is serialized and the result is parsed.          *)

\* parse_markdown_to_blocks(convert_blocks_to_markdown(blocks, title))
PassToParser ==
    /\ pc = "converted"
    /\ md' = out
    /\ pc' = "parse_start"
    /\ UNCHANGED <<lines, blocks, title, content_start_idx, i, code_lines,
                   language, err, origin, visited>>
    /\ UNCHANGED serializer_vars
    /\ UNCHANGED converter_vars
    /\ UNCHANGED server_vars

\* Blocks of the subset the parser produces, each with one text run.
CanonicalSet ==
    { text_block("heading_2", <<"h">>),
      text_block("heading_3", <<"h">>),
      text_block("bulleted_list_item", <<"b">>),
      text_block("numbered_list_item", <<"n">>),
      text_block("paragraph", <<"p">>),
      code_block(<<"c", NL, " ", "d">>, <<"j", "s">>),
      code_block(<<"#", " ", "c">>, <<"p", "y">>) }   \* a comment line "# c"

InitRoundTrip ==
    /\ in_title \in Titles
    /\ in_blocks \in Documents(CanonicalSet)
    /\ md_lines = <<>>
    /\ bi = 0
    /\ out = <<>>
    /\ starts = <<>>
    /\ md = <<>>
    /\ no_parser
    /\ pc = "convert_start"
    /\ one_call
    /\ no_server_call

NextRoundTrip ==
    \/ ConvertStart
    \/ ConvertBlock
    \/ ConvertReturn
    \/ PassToParser
    \/ ParseStart
    \/ LoopLine
    \/ OpenFence
    \/ FenceLine
    \/ CloseFence
    \/ ParseReturn

SpecRoundTrip == InitRoundTrip /\ [][NextRoundTrip]_vars

----------------------------------------------------------------------------
(* Fixed point: an input is parsed, the result is serialized and the       *)
(* markdown obtained is parsed again.                                      *)

\* convert_blocks_to_markdown(blocks, title) on the pair that
\* parse_markdown_to_blocks returned; the serializer is called once
PassToSerializer ==
    /\ pc = "done"
    /\ no_serializer
    /\ in_blocks' = blocks
    /\ in_title' = title
    /\ pc' = "convert_start"
    /\ UNCHANGED <<md_lines, bi, out, starts>>
    /\ UNCHANGED parser_vars
    /\ UNCHANGED converter_vars
    /\ UNCHANGED server_vars

NextFixedPoint ==
    \/ ParseStart
    \/ LoopLine
    \/ OpenFence
    \/ FenceLine
    \/ CloseFence
    \/ ParseReturn
    \/ PassToSerializer
    \/ ConvertStart
    \/ ConvertBlock
    \/ ConvertReturn
    \/ PassToParser

SpecFixedPoint == Init /\ [][NextFixedPoint]_vars

----------------------------------------------------------------------------
(* The value parse_markdown_to_blocks returns, as a function of its        *)
(* argument.                                                               *)

\* lines 62-64: the index at which the code-fence loop entered at k stops
RECURSIVE fence_end(_, _)
fence_end(k, ls) == IF fence_cond(k, ls) THEN fence_end(k + 1, ls) ELSE k

\* lines 24-80: the blocks the while loop appends from index k on; the scan
\* stops at a line on which the call raises
RECURSIVE scan_from(_, _)
scan_from(k, ls) ==
    IF ~(while_cond(k, ls) /\ k < Len(ls)) THEN <<>>
    ELSE LET line == ls[k + 1]
             kind == branch(line)
         IN  IF kind = "fence"
             THEN LET e == fence_end(k + 1, ls)
                  IN  <<code_block(join_lines(SubSeq(ls, k + 2, e)),
                                   code_language(strip(slice_from(line, 3))))>>
                          \o scan_from(e + 1, ls)
             ELSE IF kind = "raise" THEN <<>>
             ELSE IF kind = "blank" THEN scan_from(k + 1, ls)
             ELSE <<block_of(line, kind)>> \o scan_from(k + 1, ls)

\* lines 8-82: the pair (blocks, title)
parse_markdown_to_blocks(m) ==
    LET ls == split_lines(strip(m))
        t == title_index(ls)
    IN  [blocks |-> scan_from(IF t >= 0 THEN t + 1 ELSE 0, ls),
         title |-> IF t >= 0 THEN strip(slice_from(ls[t + 1], 2)) ELSE <<>>]

----------------------------------------------------------------------------
(* Two calls in progress on one converter.  The names assigned in the two  *)
(* methods (lines, blocks, title, content_start_idx, i, code_lines,        *)
(* language, md_lines, ...) are local names of the call: each call has     *)
(* its own frame.  What the calls share is the converter, whose only field *)
(* is markdown_parser.  A step of the model is made of statements that     *)
(* touch the frame only, so a thread switch inside a step is not           *)
(* distinguished from one before or after it.                              *)

\* the frame of the running call
frame ==
    [md |-> md, lines |-> lines, blocks |-> blocks, title |-> title,
     content_start_idx |-> content_start_idx, i |-> i,
     code_lines |-> code_lines, language |-> language, err |-> err,
     origin |-> origin, visited |-> visited, in_blocks |-> in_blocks,
     in_title |-> in_title, md_lines |-> md_lines, bi |-> bi, out |-> out,
     starts |-> starts, pc |-> pc]

\* the frame of a call that is about to start
new_frame ==
    [md |-> <<>>, lines |-> <<>>, blocks |-> <<>>, title |-> <<>>,
     content_start_idx |-> 0, i |-> 0, code_lines |-> <<>>,
     language |-> <<>>, err |-> FALSE, origin |-> <<>>, visited |-> {},
     in_blocks |-> <<>>, in_title |-> <<>>, md_lines |-> <<>>, bi |-> 0,
     out |-> <<>>, starts |-> <<>>, pc |-> "none"]

\* converter.parse_markdown_to_blocks(m) is called
parse_call(m) == [new_frame EXCEPT !.md = m, !.pc = "parse_start"]

\* converter.convert_blocks_to_markdown(bs, t) is called
convert_call(bs, t) ==
    [new_frame EXCEPT !.in_blocks = bs, !.in_title = t, !.pc = "convert_start"]

\* the call with frame f is the running one
resume(f) ==
    /\ md' = f.md
    /\ lines' = f.lines
    /\ blocks' = f.blocks
    /\ title' = f.title
    /\ content_start_idx' = f.content_start_idx
    /\ i' = f.i
    /\ code_lines' = f.code_lines
    /\ language' = f.language
    /\ err' = f.err
    /\ origin' = f.origin
    /\ visited' = f.visited
    /\ in_blocks' = f.in_blocks
    /\ in_title' = f.in_title
    /\ md_lines' = f.md_lines
    /\ bi' = f.bi
    /\ out' = f.out
    /\ starts' = f.starts
    /\ pc' = f.pc

\* Switch, had code_lines been a field of the converter (self.code_lines)
\* and not a local name: the resumed call finds what the other call left
Switch_sharing_code_lines ==
    /\ suspended # <<>>
    /\ resume([Head(suspended) EXCEPT !.code_lines = code_lines])
    /\ suspended' = Append(Tail(suspended), frame)
    /\ running' = (running % (Len(suspended) + 1)) + 1
    /\ UNCHANGED markdown_parser
    /\ UNCHANGED server_vars

\* the running call is suspended and the call that waited longest goes on
Switch ==
    /\ suspended # <<>>
    /\ resume(Head(suspended))
    /\ suspended' = Append(Tail(suspended), frame)
    /\ running' = (running % (Len(suspended) + 1)) + 1
    /\ UNCHANGED markdown_parser
    /\ UNCHANGED server_vars

\* the inputs of the calls that run side by side
ConcurrentInputs == {join_lines(ls) : ls \in Samples}

ConcurrentDocuments ==
    { <<text_block("heading_2", <<"h">>), code_block(<<"c", NL, "d">>, <<"j", "s">>),
        text_block("bulleted_list_item", <<"b">>)>>,
      <<[type |-> "to_do", rich_text |-> rich_text_of(<<"d">>), checked |-> TRUE],
        [type |-> "divider"], text_block("paragraph", <<"p">>)>>,
      <<text_block("numbered_list_item", <<"n">>), text_block("quote", <<"q">>)>> }

ConcurrentCalls ==
    {parse_call(m) : m \in ConcurrentInputs}
        \cup {convert_call(d, <<"t">>) : d \in ConcurrentDocuments}

\* two calls are made on one converter
InitConcurrent ==
    /\ markdown_parser = "mistune.create_markdown()"
    /\ running = 1
    /\ \E first \in ConcurrentCalls :
          /\ md = first.md
          /\ in_blocks = first.in_blocks
          /\ in_title = first.in_title
          /\ pc = first.pc
    /\ lines = <<>> /\ blocks = <<>> /\ title = <<>>
    /\ content_start_idx = 0 /\ i = 0
    /\ code_lines = <<>> /\ language = <<>> /\ err = FALSE
    /\ origin = <<>> /\ visited = {}
    /\ md_lines = <<>> /\ bi = 0 /\ out = <<>> /\ starts = <<>>
    /\ \E second \in ConcurrentCalls : suspended = <<second>>
    /\ no_server_call

NextConcurrent ==
    \/ ParseStart
    \/ LoopLine
    \/ OpenFence
    \/ FenceLine
    \/ CloseFence
    \/ ParseReturn
    \/ ConvertStart
    \/ ConvertBlock
    \/ ConvertReturn
    \/ Switch

SpecConcurrent == InitConcurrent /\ [][NextConcurrent]_vars

----------------------------------------------------------------------------
(* mcp_server.py: the strings that handle_read_resource takes apart.       *)

LowerLetters ==
    <<"a", "b", "c", "d", "e", "f", "g", "h", "i", "j", "k", "l", "m", "n",
      "o", "p", "q", "r", "s", "t", "u", "v", "w", "x", "y", "z">>

UpperLetters ==
    <<"A", "B", "C", "D", "E", "F", "G", "H", "I", "J", "K", "L", "M", "N",
      "O", "P", "Q", "R", "S", "T", "U", "V", "W", "X", "Y", "Z">>

\* str.isalpha for one ASCII character
isalpha(c) == \E k \in 1..26 : c = LowerLetters[k] \/ c = UpperLetters[k]

\* s.lower()
lower(s) ==
    [p \in 1..Len(s) |->
        IF \E k \in 1..26 : s[p] = UpperLetters[k]
        THEN LowerLetters[CHOOSE k \in 1..26 : s[p] = UpperLetters[k]]
        ELSE s[p]]

\* urllib.parse.scheme_chars: letters, digits and "+-."
scheme_char(c) == isalpha(c) \/ isdigit(c) \/ c \in {"+", "-", "."}

\* s.strip(c) for one character c
strip_char(s, c) ==
    LET keep == {j \in 1..Len(s) : s[j] # c}
    IN  IF keep = {} THEN <<>>
        ELSE LET lo == CHOOSE j \in keep : \A k \in keep : j <= k
                 hi == CHOOSE j \in keep : \A k \in keep : k <= j
             IN  SubSeq(s, lo, hi)

\* s.split(c) for one character c
RECURSIVE split_on(_, _)
split_on(s, c) ==
    LET n == find(s, <<c>>)
    IN  IF n < 0 THEN <<s>>
        ELSE <<SubSeq(s, 1, n)>> \o split_on(slice_from(s, n + 1), c)

\* the part of s before the first character of the set cs, all of s when
\* there is none
before_any(s, cs) ==
    LET at == {j \in 1..Len(s) : s[j] \in cs}
    IN  IF at = {} THEN s
        ELSE SubSeq(s, 1, (CHOOSE j \in at : \A k \in at : j <= k) - 1)

\* line 96: urllib.parse.urlparse(uri), its scheme, netloc and path.  The
\* scheme is the text before the first ":" when that text is made of scheme
\* characters and starts with a letter; the netloc is what follows "//" up
\* to the next "/", "?" or "#"; the path is what follows, up to "?" or "#".
urlparse(uri) ==
    LET colon == find(uri, <<":">>)
        has_scheme == /\ colon > 0
                      /\ isalpha(uri[1])
                      /\ \A p \in 1..colon : scheme_char(uri[p])
        rest == IF has_scheme THEN slice_from(uri, colon + 1) ELSE uri
        has_netloc == startswith(rest, <<"/", "/">>)
        netloc == IF has_netloc
                  THEN before_any(slice_from(rest, 2), {"/", "?", "#"})
                  ELSE <<>>
        after == IF has_netloc THEN slice_from(rest, 2 + Len(netloc)) ELSE rest
    IN  [scheme |-> IF has_scheme THEN lower(SubSeq(uri, 1, colon)) ELSE <<>>,
         netloc |-> netloc,
         path |-> before_any(after, {"?", "#"})]

NOTION == <<"n", "o", "t", "i", "o", "n">>
DATABASE == <<"d", "a", "t", "a", "b", "a", "s", "e">>
PAGE == <<"p", "a", "g", "e">>

\* lines 60, 78: f"notion://database/{id}" and f"notion://page/{id}"
resource_uri(kind, id) == NOTION \o <<":", "/", "/">> \o kind \o <<"/">> \o id

\* lines 96-104: what handle_read_resource makes of a URI before it calls
\* the API: the error it raises, or the resource type and id
split_uri(uri) ==
    LET parsed == urlparse(uri)
        path_parts == split_on(strip_char(parsed.path, "/"), "/")
    IN  IF parsed.scheme # NOTION
        THEN [error |-> "Unsupported URI scheme: ", detail |-> parsed.scheme]
        ELSE IF Len(path_parts) # 2
        THEN [error |-> "Invalid URI format: ", detail |-> uri]
        ELSE [error |-> "", resource_type |-> path_parts[1],
              resource_id |-> path_parts[2]]

----------------------------------------------------------------------------
(* mcp_server.py: handle_list_resources and handle_read_resource.  The     *)
(* workspace is what the Notion API answers from; every API call may fail, *)
(* with an APIResponseError or with another exception.                     *)

\* a call of the Notion API, as api_log keeps it
api_call(name, id) == [call |-> name, id |-> id]

\* lines 58-64: the resources of the databases a search returned, up to the
\* first one whose "title" is an empty list, on which
\* db.get('title', [{}])[0] raises IndexError
RECURSIVE database_resources(_)
database_resources(dbs) ==
    IF dbs = <<>> THEN [items |-> <<>>, raised |-> FALSE]
    ELSE IF Head(dbs).title = "empty list"
    THEN [items |-> <<>>, raised |-> TRUE]
    ELSE LET rest == database_resources(Tail(dbs))
         IN  [items |-> <<[uri |-> resource_uri(DATABASE, Head(dbs).id),
                           id |-> Head(dbs).id,
                           mimeType |-> "application/json"]>> \o rest.items,
              raised |-> rest.raised]

\* lines 68-82: the resources of the first 20 pages a search returned
page_resources(pages) ==
    [n \in 1..(IF Len(pages) < 20 THEN Len(pages) ELSE 20) |->
        [uri |-> resource_uri(PAGE, pages[n].id),
         id |-> pages[n].id,
         mimeType |-> "text/plain"]]

\* lines 49-88: handle_list_resources
ListResources ==
    /\ spc = "list_start"
    /\ IF ~notion_client
       THEN /\ resources' = <<>>
            /\ UNCHANGED api_log
       ELSE \E databases_found, pages_found \in BOOLEAN :
               LET dbs == database_resources(workspace.databases)
               IN  IF ~databases_found
                   THEN /\ resources' = <<>>
                        /\ api_log' = <<api_call("search", "database")>>
                   ELSE IF dbs.raised \/ ~pages_found
                   THEN /\ resources' = dbs.items
                        /\ api_log' =
                              <<api_call("search", "database")>>
                                 \o (IF dbs.raised THEN <<>>
                                     ELSE <<api_call("search", "page")>>)
                   ELSE /\ resources' = dbs.items \o page_resources(workspace.pages)
                        /\ api_log' = <<api_call("search", "database"),
                                        api_call("search", "page")>>
    /\ response' = [kind |-> "return", text |-> "resources"]
    /\ spc' = "returned"
    /\ UNCHANGED <<notion_client, workspace, request>>
    /\ UNCHANGED <<md, lines, blocks, title, content_start_idx, i, code_lines,
                   language, err, origin, visited, in_blocks, in_title,
                   md_lines, bi, out, starts, pc>>
    /\ UNCHANGED converter_vars

\* the URIs a client sends that no listing gave it
OtherUris ==
    { NOTION \o <<":", "/", "/", "/">> \o PAGE \o <<"/", "a">>,
      NOTION \o <<":", "/", "/", "/">> \o DATABASE \o <<"/", "a">>,
      NOTION \o <<":", "/", "/", "/", "b", "l", "o", "c", "k", "/", "a">>,
      <<"N", "o", "t", "i", "o", "n", ":">> \o PAGE \o <<"/", "a">>,
      <<"h", "t", "t", "p", ":", "/", "/">> \o PAGE \o <<"/", "a">>,
      PAGE \o <<"/", "a">> }

\* a client asks for a resource: one of those the listing returned
\* (listed is its position in the list), or another URI (listed = 0)
ReadRequest ==
    /\ spc = "returned"
    /\ request.handler = "list_resources"
    /\ \/ \E n \in 1..Len(resources) :
             request' = [handler |-> "read_resource", uri |-> resources[n].uri,
                         listed |-> n]
       \/ \E u \in OtherUris :
             request' = [handler |-> "read_resource", uri |-> u, listed |-> 0]
    /\ response' = [kind |-> "none"]
    /\ api_log' = <<>>
    /\ spc' = "read_start"
    /\ UNCHANGED <<notion_client, workspace, resources>>
    /\ UNCHANGED <<md, lines, blocks, title, content_start_idx, i, code_lines,
                   language, err, origin, visited, in_blocks, in_title,
                   md_lines, bi, out, starts, pc>>
    /\ UNCHANGED converter_vars

\* lines 125-130: what the except clauses of handle_read_resource raise
read_error(outcome) ==
    [kind |-> "raise",
     text |-> IF outcome = "APIResponseError" THEN "Notion API error: "
              ELSE "Error reading resource: "]

\* lines 90-130: handle_read_resource
ReadResource ==
    /\ spc = "read_start"
    /\ LET parts == split_uri(request.uri)
       IN  IF ~notion_client
           THEN /\ response' = [kind |-> "raise",
                                text |-> "Notion client not initialized"]
                /\ UNCHANGED api_log
           ELSE IF parts.error # ""
           THEN /\ response' = [kind |-> "raise", text |-> parts.error]
                /\ UNCHANGED api_log
           ELSE IF parts.resource_type \notin {DATABASE, PAGE}
           THEN \* line 124, caught on line 129
                /\ response' = [kind |-> "raise",
                                text |-> "Error reading resource: Unknown resource type: "]
                /\ UNCHANGED api_log
           ELSE LET first == IF parts.resource_type = DATABASE
                             THEN api_call("databases.retrieve", parts.resource_id)
                             ELSE api_call("pages.retrieve", parts.resource_id)
                    second == IF parts.resource_type = DATABASE
                              THEN api_call("databases.query", parts.resource_id)
                              ELSE api_call("blocks.children.list", parts.resource_id)
                IN  \E o1, o2 \in {"ok", "APIResponseError", "Exception"} :
                       IF o1 # "ok"
                       THEN /\ api_log' = <<first>>
                            /\ response' = read_error(o1)
                       ELSE /\ api_log' = <<first, second>>
                            /\ response' =
                                  IF o2 # "ok" THEN read_error(o2)
                                  ELSE [kind |-> "return", text |-> "content"]
    /\ spc' = "returned"
    /\ UNCHANGED <<notion_client, workspace, request, resources>>
    /\ UNCHANGED <<md, lines, blocks, title, content_start_idx, i, code_lines,
                   language, err, origin, visited, in_blocks, in_title,
                   md_lines, bi, out, starts, pc>>
    /\ UNCHANGED converter_vars

\* the ids, databases and pages of the workspaces
Ids == { <<"a">>, <<"1", "f", "-", "2">> }

MaxResources == 2   \* a search returns at most MaxResources results

DatabaseSet ==
    {[id |-> d, title |-> t] : d \in Ids, t \in {"named", "absent"}}
        \cup {[id |-> <<"a">>, title |-> "empty list"]}

PageSet == {[id |-> d] : d \in Ids}

\* the server runs, with or without a client, and a listing is asked for
InitResources ==
    /\ notion_client \in BOOLEAN
    /\ \E dbs \in UNION {[1..n -> DatabaseSet] : n \in 0..MaxResources},
          pages \in UNION {[1..n -> PageSet] : n \in 0..MaxResources} :
          workspace = [databases |-> dbs, pages |-> pages, created |-> <<>>]
    /\ request = [handler |-> "list_resources"]
    /\ resources = <<>>
    /\ response = [kind |-> "none"]
    /\ api_log = <<>>
    /\ spc = "list_start"
    /\ md = <<>>
    /\ no_parser
    /\ in_blocks = <<>> /\ in_title = <<>> /\ md_lines = <<>> /\ bi = 0
    /\ out = <<>> /\ starts = <<>>
    /\ pc = "none"
    /\ one_call

NextResources ==
    \/ ListResources
    \/ ReadRequest
    \/ ReadResource

SpecResources == InitResources /\ [][NextResources]_vars

----------------------------------------------------------------------------
(* mcp_server.py: handle_call_tool.  The arguments are a dict: a key that  *)
(* is absent reads as None, or as the default that .get is given.          *)

\* None, a value that is no string
None == "None"

\* arguments.get(key), arguments.get(key, default)
get(arguments, key, default) ==
    IF key \in DOMAIN arguments THEN arguments[key] ELSE default

\* lines 385-418: the block _markdown_to_blocks makes of a stripped line
server_block_of(line) ==
    IF startswith(line, H1_MARK) THEN text_block("heading_1", slice_from(line, 2))
    ELSE IF startswith(line, H2_MARK) THEN text_block("heading_2", slice_from(line, 3))
    ELSE IF startswith(line, H3_MARK) THEN text_block("heading_3", slice_from(line, 4))
    ELSE IF startswith(line, BULLET_MARK)
    THEN text_block("bulleted_list_item", slice_from(line, 2))
    ELSE text_block("paragraph", line)

\* lines 380-418: the for loop of _markdown_to_blocks
RECURSIVE server_blocks(_)
server_blocks(ls) ==
    IF ls = <<>> THEN <<>>
    ELSE (IF strip(Head(ls)) = <<>> THEN <<>>
          ELSE <<server_block_of(strip(Head(ls)))>>)
         \o server_blocks(Tail(ls))

\* lines 376-420: _markdown_to_blocks
_markdown_to_blocks(markdown) == server_blocks(split_lines(strip(markdown)))

\* the except clauses, had the handler caught APIResponseError only
caught_api_errors_only(exception) ==
    IF exception = "APIResponseError"
    THEN [kind |-> "return", text |-> "Notion API error: "]
    ELSE [kind |-> "raise", text |-> exception]

\* lines 344-347: what the except clauses of handle_call_tool return
caught(exception) ==
    [kind |-> "return",
     text |-> IF exception = "APIResponseError" THEN "Notion API error: "
              ELSE "Error: "]

\* the outcomes of an API call
Outcomes == {"ok", "APIResponseError", "Exception"}

\* a text result of the handler
text_result(text) == [kind |-> "return", text |-> text]

\* lines 255-277: create_page up to the answer of pages.create
create_page(arguments, outcome) ==
    LET parent_id == get(arguments, "parent_id", None)
        content == get(arguments, "content", <<>>)
        page == [id |-> <<"n", "e", "w">>,
                 parent |-> IF Len(parent_id) = 32 THEN "page_id" ELSE "database_id",
                 title |-> get(arguments, "title", None),
                 properties |-> {"title"} \cup get(arguments, "properties", {}),
                 children |-> <<>>]
    IN  IF "parent_id" \notin DOMAIN arguments
        THEN \* len(None) raises TypeError
             [response |-> caught("TypeError"), log |-> <<>>,
              created |-> <<>>, spc |-> "returned"]
        ELSE IF outcome # "ok"
        THEN [response |-> caught(outcome),
              log |-> <<api_call("pages.create", parent_id)>>,
              created |-> <<>>, spc |-> "returned"]
        ELSE IF content # <<>> /\ _markdown_to_blocks(content) # <<>>
        THEN [response |-> [kind |-> "none"],
              log |-> <<api_call("pages.create", parent_id)>>,
              created |-> <<page>>, spc |-> "append_children"]
        ELSE [response |-> text_result("Page created successfully:"),
              log |-> <<api_call("pages.create", parent_id)>>,
              created |-> <<page>>, spc |-> "returned"]

\* lines 238-253, 289-333: the tools that make one API call
one_call_tool(name, arguments, outcome) ==
    CASE name = "search_notion" ->
            [response |-> IF outcome = "ok" THEN text_result("Search results for ")
                          ELSE caught(outcome),
             log |-> <<api_call("search", get(arguments, "query", <<>>))>>]
      [] name = "update_page" ->
            [response |-> IF outcome = "ok"
                          THEN text_result("Page updated successfully:")
                          ELSE caught(outcome),
             log |-> <<api_call("pages.update", get(arguments, "page_id", None))>>]
      [] name = "query_database" ->
            LET page_size == get(arguments, "page_size", [int |-> 50])
            IN  IF "str" \in DOMAIN page_size
                THEN \* min("10", 100) raises TypeError
                     [response |-> caught("TypeError"), log |-> <<>>]
                ELSE [response |-> IF outcome = "ok"
                                   THEN text_result("Database query results:")
                                   ELSE caught(outcome),
                      log |-> <<[call |-> "databases.query",
                                 id |-> get(arguments, "database_id", None),
                                 page_size |->
                                     IF page_size.int = 0 THEN None
                                     ELSE IF page_size.int < 100 THEN page_size.int
                                     ELSE 100]>>]

\* lines 231-347: handle_call_tool, up to its return or, in create_page
\* with content, up to the answer of pages.create; the log keeps, with each
\* call made, what the API answered
CallTool ==
    /\ spc = "tool_start"
    /\ \E outcome \in Outcomes :
          IF ~notion_client
          THEN /\ response' = text_result("Error: Notion client not initialized")
               /\ spc' = "returned"
               /\ UNCHANGED <<api_log, workspace>>
          ELSE IF request.name = "create_page"
          THEN LET step == create_page(request.arguments, outcome)
               IN  /\ response' = step.response
                   /\ api_log' = [k \in DOMAIN step.log |->
                                     step.log[k] @@ [outcome |-> outcome]]
                   /\ workspace' = [workspace EXCEPT !.created = @ \o step.created]
                   /\ spc' = step.spc
          ELSE IF request.name \in {"search_notion", "update_page", "query_database"}
          THEN LET step == one_call_tool(request.name, request.arguments, outcome)
               IN  /\ response' = step.response
                   /\ api_log' = [k \in DOMAIN step.log |->
                                     step.log[k] @@ [outcome |-> outcome]]
                   /\ spc' = "returned"
                   /\ UNCHANGED workspace
          ELSE /\ response' = [kind |-> "return", text |-> "Unknown tool: ",
                               name |-> request.name]
               /\ spc' = "returned"
               /\ UNCHANGED <<api_log, workspace>>
    /\ UNCHANGED <<notion_client, request, resources>>
    /\ UNCHANGED <<md, lines, blocks, title, content_start_idx, i, code_lines,
                   language, err, origin, visited, in_blocks, in_title,
                   md_lines, bi, out, starts, pc>>
    /\ UNCHANGED converter_vars

\* lines 279-287, 343-347: create_page appends the children to the page it
\* created and returns
AppendChildren ==
    /\ spc = "append_children"
    /\ LET n == Len(workspace.created)
           children == _markdown_to_blocks(request.arguments.content)
       IN  \E outcome \in Outcomes :
              /\ api_log' = Append(api_log,
                                   api_call("blocks.children.append",
                                            workspace.created[n].id)
                                       @@ [outcome |-> outcome])
              /\ IF outcome = "ok"
                 THEN /\ workspace' =
                            [workspace EXCEPT !.created[n].children = children]
                      /\ response' = text_result("Page created successfully:")
                 ELSE /\ response' = caught(outcome)
                      /\ UNCHANGED workspace
    /\ spc' = "returned"
    /\ UNCHANGED <<notion_client, request, resources>>
    /\ UNCHANGED <<md, lines, blocks, title, content_start_idx, i, code_lines,
                   language, err, origin, visited, in_blocks, in_title,
                   md_lines, bi, out, starts, pc>>
    /\ UNCHANGED converter_vars

\* a 32-character id (a page id without hyphens) and a 36-character one
Id32 == [n \in 1..32 |-> "a"]
Id36 == [n \in 1..36 |-> IF n \in {9, 14, 19, 24} THEN "-" ELSE "b"]

\* the values of the content argument: a heading and a paragraph, blank
\* lines only, the empty string
Contents ==
    { <<"#", " ", "h", NL, " ", "p">>, <<" ", NL, " ">>, <<>> }

\* the argument dicts of the calls
ToolArguments(name) ==
    CASE name = "search_notion" ->
            { <<>>, [query |-> <<"q">>], [query |-> <<"q">>, filter |-> "page"] }
      [] name = "create_page" ->
            {[title |-> <<"t">>]}
              \cup {[parent_id |-> d, title |-> <<"t">>] : d \in {Id32, Id36}}
              \cup {[parent_id |-> d, title |-> <<"t">>, content |-> c] :
                       d \in {Id32, Id36}, c \in Contents}
              \cup {[parent_id |-> Id32, content |-> c, properties |-> {"tags"}] :
                       c \in Contents}
      [] name = "update_page" ->
            { <<>>, [page_id |-> Id36], [page_id |-> Id36, title |-> <<"t">>],
              [page_id |-> Id36, properties |-> {"tags"}] }
      [] name = "query_database" ->
            { <<>>, [database_id |-> Id36] }
              \cup {[database_id |-> Id36, page_size |-> ps] :
                       ps \in {[int |-> 0], [int |-> 10], [int |-> 200],
                               [str |-> "10"]}}
      [] OTHER -> { <<>>, [page_id |-> Id36] }

ToolNames ==
    {"search_notion", "create_page", "update_page", "query_database",
     "delete_page", ""}

\* the server runs, with or without a client, and a tool is called
InitTools ==
    /\ notion_client \in BOOLEAN
    /\ workspace = [databases |-> <<>>, pages |-> <<>>, created |-> <<>>]
    /\ \E name \in ToolNames : \E arguments \in ToolArguments(name) :
          request = [handler |-> "call_tool", name |-> name,
                     arguments |-> arguments]
    /\ resources = <<>>
    /\ response = [kind |-> "none"]
    /\ api_log = <<>>
    /\ spc = "tool_start"
    /\ md = <<>>
    /\ no_parser
    /\ in_blocks = <<>> /\ in_title = <<>> /\ md_lines = <<>> /\ bi = 0
    /\ out = <<>> /\ starts = <<>>
    /\ pc = "none"
    /\ one_call

NextTools ==
    \/ CallTool
    \/ AppendChildren

SpecTools == InitTools /\ [][NextTools]_vars

----------------------------------------------------------------------------
(* Properties.  In the parser's properties a line is an element of the     *)
(* list the parser scans, md.strip().split("\n"), and line numbers are     *)
(* indices into that list.                                                 *)

\* the text content of a block: its text runs joined
text_of(b) == _extract_text_content(rich_text(b))

\* the indices of the blocks that the iteration on line k appended
blocks_from(k) == {j \in 1..Len(blocks) : origin[j] = k}

\* the lines that were classified, i.e. read outside a code fence
outside_lines == {k \in 0..(Len(lines) - 1) : <<k, "outside">> \in visited}

\* C1: round trip.  For every document whose blocks are of the types
\* heading_2, heading_3, bulleted_list_item, numbered_list_item, code and
\* paragraph and carry one text run each, parsing the serialized document
\* gives back its title and a block sequence of the same length with the
\* same types and the same text contents.
C1_RoundTrip ==
    pc = "done" =>
        /\ title = in_title
        /\ Len(blocks) = Len(in_blocks)
        /\ \A j \in 1..Len(in_blocks) :
              /\ blocks[j].type = in_blocks[j].type
              /\ text_of(blocks[j]) = text_of(in_blocks[j])

\* C2: the parser terminates and raises no error.  Every iteration of the
\* outer loop and of the code-fence loop strictly increases i, which never
\* exceeds len(lines) + 1, so the loops end after at most len(lines) + 1
\* iterations; no step raises IndexError, whatever the line (an empty line,
\* a line of whitespace, a fence opened on the last line); and the call
\* returns with i >= len(lines).
C2_Terminates ==
    [][ /\ (pc \in {"loop", "fence"} /\ pc' \in {"loop", "fence"}) => i' > i
        /\ i' <= Len(lines') + 1
        /\ ~err' /\ pc' # "raised"
        /\ pc' = "done" => i' >= Len(lines') ]_vars

\* C2 witness: a call has returned after it read an empty line and a line of
\* whitespace, and a code fence opened on the last line.
C2_Witness ==
    /\ pc = "done"
    /\ \E k \in outside_lines : lines[k + 1] = <<>>
    /\ \E k \in outside_lines : lines[k + 1] = <<" ">>
    /\ startswith(lines[Len(lines)], FENCE)
    /\ <<Len(lines) - 1, "outside">> \in visited
    /\ i = Len(lines) + 1

\* the lines that start with "# "
title_marked == {k \in 0..(Len(lines) - 1) : startswith(lines[k + 1], H1_MARK)}

first_dot_space(line) ==
    CHOOSE p \in 0..(Len(line) - 2) :
        /\ line[p + 1] = "." /\ line[p + 2] = " "
        /\ \A q \in 0..(p - 1) : ~(line[q + 1] = "." /\ line[q + 2] = " ")

\* the numbered-list rule: non-blank, first character a digit, ". " somewhere
numbered_rule(line) ==
    /\ \E p \in 1..Len(line) : ~isspace(line[p])
    /\ isdigit(line[1])
    /\ \E p \in 1..(Len(line) - 1) : line[p] = "." /\ line[p + 1] = " "

\* the block type that the precedence of C4 gives a line, "none" for no block
claimed_type(line) ==
    IF startswith(line, <<"#", "#", " ">>) THEN "heading_2"
    ELSE IF startswith(line, <<"#", "#", "#", " ">>) THEN "heading_3"
    ELSE IF startswith(line, <<"-", " ">>) THEN "bulleted_list_item"
    ELSE IF numbered_rule(line) THEN "numbered_list_item"
    ELSE IF startswith(line, FENCE) THEN "code"
    ELSE IF \E p \in 1..Len(line) : ~isspace(line[p]) THEN "paragraph"
    ELSE "none"

fence_openers == {k \in outside_lines : claimed_type(lines[k + 1]) = "code"}

\* the lines after line k that start with the fence marker
closers(k) == {c \in (k + 1)..(Len(lines) - 1) : startswith(lines[c + 1], FENCE)}

\* the first line after line k that starts with the fence marker
closer(k) == CHOOSE c \in closers(k) : \A d \in closers(k) : c <= d

\* C6: a terminated code fence.  A classified line that starts with the
\* fence marker and has a later line starting with it gives one code block:
\* its language is the trimmed text after the marker, "plain text" when that
\* is empty, and its text is the lines up to the next marker line; these
\* lines are not classified and give no block; the closing line is consumed
\* and gives no block; the line after it is classified.
C6_TerminatedFence ==
    pc = "done" =>
        \A k \in fence_openers :
            closers(k) # {} =>
                LET c == closer(k)
                    lang == strip(SubSeq(lines[k + 1], 4, Len(lines[k + 1])))
                IN  /\ Cardinality(blocks_from(k)) = 1
                    /\ \A j \in blocks_from(k) :
                          /\ blocks[j].type = "code"
                          /\ blocks[j].language =
                                IF lang = <<>> THEN PLAIN_TEXT ELSE lang
                          /\ text_of(blocks[j]) = join_lines(SubSeq(lines, k + 2, c))
                    /\ \A m \in (k + 1)..(c - 1) :
                          /\ <<m, "inside">> \in visited
                          /\ <<m, "outside">> \notin visited
                          /\ blocks_from(m) = {}
                    /\ <<c, "closing">> \in visited
                    /\ <<c, "outside">> \notin visited
                    /\ blocks_from(c) = {}
                    /\ c + 1 < Len(lines) => <<c + 1, "outside">> \in visited

\* C6 witness: a call has returned after a bare fence that holds a "## "
\* line and an empty line, is closed, and is followed by a list item.
C6_Witness ==
    /\ pc = "done"
    /\ \E k \in fence_openers :
          /\ lines[k + 1] = FENCE
          /\ closers(k) # {}
          /\ closer(k) = k + 3
          /\ startswith(lines[k + 2], H2_MARK)
          /\ lines[k + 3] = <<>>
          /\ closer(k) + 1 < Len(lines)
          /\ blocks_from(closer(k) + 1) # {}

C8_BlankInput ==
    /\ (pc = "done" /\ \A p \in 1..Len(md) : isspace(md[p])) =>
          title = <<>> /\ blocks = <<>>
    /\ \A j \in 1..Len(blocks) :
          \E p \in 1..Len(lines[origin[j] + 1]) : ~isspace(lines[origin[j] + 1][p])
    /\ pc = "done" =>
          \A k \in outside_lines :
              (\A p \in 1..Len(lines[k + 1]) : isspace(lines[k + 1][p])) =>
                  blocks_from(k) = {}

\* C8 witness: a call on an input of spaces and newlines has returned.
C8_Witness ==
    /\ pc = "done"
    /\ Len(md) >= 3
    /\ \A p \in 1..Len(md) : isspace(md[p])
    /\ \E p \in 1..Len(md) : md[p] = " "
    /\ \E p \in 1..Len(md) : md[p] = NL

\* the lines that the for loop's current step appends to md_lines
appended == SubSeq(md_lines', Len(md_lines) + 1, Len(md_lines'))

\* one step of the for loop follows the blank-line rule in which the types
\* of no_blank are emitted as one line with no blank line after it, and the
\* other types the serializer handles are followed by a blank line
blank_line_step(no_blank) ==
    (pc = "convert_loop" /\ bi' = bi + 1) =>
        LET type == in_blocks[bi + 1].type
        IN  /\ type \in {"heading_1", "heading_2", "heading_3", "code",
                         "paragraph", "to_do", "quote"} \ no_blank =>
                  Len(appended) >= 2 /\ appended[Len(appended)] = <<>>
            /\ type \in no_blank =>
                  Len(appended) = 1 /\ appended[1] # <<>>

\* C9 (as claimed): the serializer emits a blank line after the markdown
\* form of every block it handles (heading, code, paragraph, to_do, quote)
\* except bulleted_list_item and numbered_list_item.
C9_BlankLineRule_Claimed ==
    [][blank_line_step({"bulleted_list_item", "numbered_list_item"})]_vars

\* C9 (amended): the serializer emits a blank line after the markdown form
\* of every block it handles (heading, code, paragraph, quote) except
\* bulleted_list_item, numbered_list_item and to_do, which are emitted as
\* one line with no blank line after it.
C9_BlankLineRule ==
    [][blank_line_step({"bulleted_list_item", "numbered_list_item", "to_do"})]_vars

\* C9 witness: a document with a to_do, a bulleted_list_item and a quote has
\* been serialized.
C9_Witness ==
    /\ pc = "converted"
    /\ \E j \in 1..Len(in_blocks) : in_blocks[j].type = "to_do"
    /\ \E j \in 1..Len(in_blocks) : in_blocks[j].type = "bulleted_list_item"
    /\ \E j \in 1..Len(in_blocks) : in_blocks[j].type = "quote"

\* the positions j where two bulleted_list_item blocks are followed by a
\* paragraph, all the text before them being free of newlines, so that the
\* lines of the output before them are the elements of md_lines
list_groups ==
    {j \in 1..(Len(in_blocks) - 2) :
        /\ in_blocks[j].type = "bulleted_list_item"
        /\ in_blocks[j + 1].type = "bulleted_list_item"
        /\ in_blocks[j + 2].type = "paragraph"
        /\ \A p \in 1..starts[j] : \A q \in 1..Len(md_lines[p]) : md_lines[p][q] # NL}

\* in the output, the two list lines of the group at j are found with no
\* blank line between them, and the paragraph line after them
list_group_lines(j, output) ==
    /\ output[starts[j] + 1] = <<"-", " ">> \o text_of(in_blocks[j])
    /\ output[starts[j + 1] + 1] = <<"-", " ">> \o text_of(in_blocks[j + 1])
    /\ output[starts[j + 2] + 1] = text_of(in_blocks[j + 2])
    /\ \A p \in (starts[j] + 2)..starts[j + 1] : output[p] # <<>>

\* C10 (as claimed): when two consecutive bulleted_list_item blocks are
\* followed by a paragraph, the output has no blank line between the two
\* list lines and has a blank line between the last list line and the
\* paragraph line.
C10_ListGrouping_Claimed ==
    pc = "converted" =>
        \A j \in list_groups :
            /\ list_group_lines(j, split_lines(out))
            /\ \E p \in (starts[j + 1] + 2)..starts[j + 2] :
                  split_lines(out)[p] = <<>>

\* C10 (amended): when two consecutive bulleted_list_item blocks are
\* followed by a paragraph, the output has no blank line between the two
\* list lines and none between the last list line and the paragraph line:
\* the three lines are consecutive and the blank line follows the paragraph
\* line.
C10_ListGrouping ==
    pc = "converted" =>
        \A j \in list_groups :
            /\ list_group_lines(j, split_lines(out))
            /\ starts[j + 1] = starts[j] + 1
            /\ starts[j + 2] = starts[j + 1] + 1
            /\ split_lines(out)[starts[j + 2] + 2] = <<>>

\* C10 witness: a document with a title, two bulleted_list_item blocks and a
\* paragraph has been serialized.
C10_Witness ==
    /\ pc = "converted"
    /\ in_title # <<>>
    /\ Len(in_blocks) = 3
    /\ 1 \in list_groups
    /\ text_of(in_blocks[3]) # <<>>

\* the text runs of a list, the first n of them, joined in order with no
\* separator; an element that is not a text run contributes nothing
RECURSIVE runs_joined(_, _)
runs_joined(runs, n) ==
    IF n = 0 THEN <<>>
    ELSE runs_joined(runs, n - 1)
         \o (IF runs[n].has_text THEN runs[n].content ELSE <<>>)

\* the text of a block as C12 states it
joined_text(b) ==
    IF "rich_text" \in DOMAIN b
    THEN runs_joined(b.rich_text, Len(b.rich_text)) ELSE <<>>

\* the types the serializer has a branch for
handled_types ==
    {"paragraph", "heading_1", "heading_2", "heading_3", "bulleted_list_item",
     "numbered_list_item", "code", "to_do", "quote"}

\* the markdown form of a block as C12 states it: a fixed prefix and the
\* joined text, or the three parts of a code block
claimed_form(b) ==
    LET t == joined_text(b)
    IN  CASE b.type = "paragraph" -> <<t>>
          [] b.type = "heading_1" -> <<<<"#", " ">> \o t>>
          [] b.type = "heading_2" -> <<<<"#", "#", " ">> \o t>>
          [] b.type = "heading_3" -> <<<<"#", "#", "#", " ">> \o t>>
          [] b.type = "bulleted_list_item" -> <<<<"-", " ">> \o t>>
          [] b.type = "numbered_list_item" -> <<<<"1", ".", " ">> \o t>>
          [] b.type = "to_do" ->
                IF "checked" \in DOMAIN b /\ b.checked
                THEN <<<<"-", " ", "[", "x", "]", " ">> \o t>>
                ELSE <<<<"-", " ", "[", " ", "]", " ">> \o t>>
          [] b.type = "quote" -> <<<<">", " ">> \o t>>
          [] b.type = "code" ->
                <<<<BACKTICK, BACKTICK, BACKTICK>>
                     \o (IF "language" \in DOMAIN b THEN b.language ELSE <<>>),
                  t,
                  <<BACKTICK, BACKTICK, BACKTICK>>>>

\* C11: serializer title rule.  The output starts with the line "# " +
\* title followed by one blank line exactly when the title is non-empty, and
\* the first block's markdown form comes right after them; when the title
\* is empty or absent the output has no title line: it begins with the
\* first block's markdown form, and it is empty when there is no block.
C11_TitleRule ==
    pc = "converted" =>
        LET output == split_lines(out)
            offset == IF in_title # <<>> THEN 2 ELSE 0
        IN  /\ in_title # <<>> =>
                  /\ Len(output) >= 2
                  /\ output[1] = <<"#", " ">> \o in_title
                  /\ output[2] = <<>>
            /\ in_blocks = <<>> =>
                  out = (IF in_title # <<>>
                         THEN <<"#", " ">> \o in_title \o <<NL>> ELSE <<>>)
            /\ in_blocks # <<>> =>
                  /\ starts[1] = offset
                  /\ in_blocks[1].type \in handled_types =>
                        /\ Len(output) > offset
                        /\ output[offset + 1] = claimed_form(in_blocks[1])[1]

\* C11 witness: a document with a title and a first block of type
\* heading_2 has been serialized.
C11_Witness ==
    /\ pc = "converted"
    /\ in_title = <<"t">>
    /\ Len(in_blocks) >= 2
    /\ in_blocks[1].type = "heading_2"

\* C11 witness of the other case: a document with no title whose first
\* block is a paragraph has been serialized.
C11_WitnessNoTitle ==
    /\ pc = "converted"
    /\ in_title = <<>>
    /\ Len(in_blocks) >= 2
    /\ in_blocks[1].type = "paragraph"

\* C12: serializer variant forms.  Each block's line is a fixed prefix plus
\* the contents of all its text runs joined in order with no separator:
\* "## " for heading_2, "### " for heading_3, "- " for bulleted_list_item,
\* "1. " for every numbered_list_item whatever its position, no prefix for
\* paragraph, "- [x] " or "- [ ] " for to_do according to checked, "> " for
\* quote; a code block is emitted as the fence and the language, then the
\* text, then a closing fence.
C12_VariantForms ==
    [][ (pc = "convert_loop" /\ bi' = bi + 1
           /\ in_blocks[bi + 1].type \in handled_types \ {"heading_1"}) =>
            LET form == claimed_form(in_blocks[bi + 1])
            IN  /\ Len(appended) >= Len(form)
                /\ SubSeq(appended, 1, Len(form)) = form
                /\ \A p \in (Len(form) + 1)..Len(appended) : appended[p] = <<>>
      ]_vars

\* C12 witness: a document has been serialized in which a
\* numbered_list_item follows another one and a paragraph has three rich
\* text elements, two of them text runs.
C12_Witness ==
    /\ pc = "converted"
    /\ Len(in_blocks) = 3
    /\ in_blocks[1].type = "numbered_list_item"
    /\ in_blocks[2].type = "numbered_list_item"
    /\ in_blocks[3].type = "paragraph"
    /\ Len(in_blocks[3].rich_text) = 3
    /\ md_lines = <<<<"1", ".", " ", "n">>, <<"1", ".", " ", "n">>,
                    <<"p", "q">>, <<>>>>

\* the positions of the blocks whose type the serializer has no branch for
unknown_blocks == {j \in 1..Len(in_blocks) : in_blocks[j].type \notin handled_types}

\* the number of lines in md_lines when the for loop left in_blocks[j]
end_of(j) == IF j < Len(in_blocks) THEN starts[j + 1] ELSE Len(md_lines)

\* C13: silent skip.  A block whose type the serializer does not handle
\* contributes no line and raises no error, and every block before and
\* after it is emitted exactly as if the unknown block were absent: the
\* output is that of the document without its unknown blocks.
C13_SilentSkip ==
    pc = "converted" =>
        /\ \A j \in unknown_blocks : end_of(j) = starts[j]
        /\ ~err
        /\ out = convert_blocks_to_markdown(
                     SelectSeq(in_blocks, LAMBDA b : b.type \in handled_types),
                     in_title)

\* C13 witness: a document with a block of an unhandled type between a
\* heading and a paragraph has been serialized.
C13_Witness ==
    /\ pc = "converted"
    /\ Len(in_blocks) = 3
    /\ unknown_blocks = {2}
    /\ in_blocks[1].type = "heading_2"
    /\ in_blocks[3].type = "paragraph"
    /\ Len(md_lines) = 4

\* the literal lines of the input, before any trimming
raw_lines == split_lines(md)

\* the number of lines of the input that lie wholly in its leading
\* whitespace: line k of the scanned list is line k + leading_lines of the
\* input
leading_lines ==
    Cardinality({p \in 1..Len(md) :
                    md[p] = NL /\ \A q \in 1..p : isspace(md[q])})

\* a string without its trailing whitespace
rstrip(s) ==
    LET keep == {p \in 1..Len(s) : ~isspace(s[p])}
    IN  IF keep = {} THEN <<>>
        ELSE SubSeq(s, 1, CHOOSE p \in keep : \A q \in keep : q <= p)

\* the input lines after the fence that opened blocks[j] which start with a
\* fence (0-based indices into raw_lines)
raw_closers(j) ==
    {c \in (origin[j] + leading_lines + 1)..(Len(raw_lines) - 1) :
        startswith(raw_lines[c + 1], FENCE)}

\* the literal lines of the input between the fence that opened blocks[j]
\* and the first fence after it, or the end of the input
raw_between(j) ==
    LET o == origin[j] + leading_lines
    IN  IF raw_closers(j) # {}
        THEN SubSeq(raw_lines, o + 2,
                    CHOOSE c \in raw_closers(j) : \A d \in raw_closers(j) : c <= d)
        ELSE SubSeq(raw_lines, o + 2, Len(raw_lines))

\* the code blocks among the blocks produced so far
code_blocks == {j \in 1..Len(blocks) : blocks[j].type = "code"}

\* C14 (as claimed): code text is verbatim.  The text of each code block
\* the parser produces is exactly the newline-join of the input's literal
\* lines between the opening fence and the closing fence, or the end of the
\* input when the fence is unterminated, with no character of those lines
\* removed.
C14_CodeVerbatim_Claimed ==
    \A j \in code_blocks : text_of(blocks[j]) = join_lines(raw_between(j))

\* C14 (amended): the text of each code block is exactly the newline-join
\* of the input's literal lines between the opening fence and the closing
\* fence; when the fence is unterminated it is the newline-join of the
\* input's lines from the opening fence to the end of the input without
\* the input's trailing whitespace.
C14_CodeVerbatim ==
    \A j \in code_blocks :
        text_of(blocks[j]) =
            IF raw_closers(j) # {} THEN join_lines(raw_between(j))
            ELSE rstrip(join_lines(raw_between(j)))

\* C14 witness: a call has returned a code block from an unterminated fence
\* whose last line ends with whitespace, on an input that starts with a
\* blank line.
C14_Witness ==
    /\ pc = "done"
    /\ \E j \in code_blocks :
          /\ raw_closers(j) = {}
          /\ raw_between(j) # <<>>
          /\ isspace(md[Len(md)])
          /\ text_of(blocks[j]) # <<>>
          /\ leading_lines > 0

\* C14 witness of the terminated case: a call has returned a code block
\* from a closed fence whose lines start and end with whitespace.
C14_WitnessClosed ==
    /\ pc = "done"
    /\ \E j \in code_blocks :
          /\ raw_closers(j) # {}
          /\ raw_between(j) = << <<" ", "-", " ", "a", " ">> >>

\* a string that neither starts nor ends with whitespace
trimmed(s) == s = <<>> \/ (~isspace(s[1]) /\ ~isspace(s[Len(s)]))

\* C15: trimmed single run.  Every block the parser produces that is not a
\* code block carries exactly one text run, and the string of that run has
\* no leading and no trailing whitespace.
C15_TrimmedSingleRun ==
    \A j \in 1..Len(blocks) :
        blocks[j].type # "code" =>
            /\ Len(blocks[j].rich_text) = 1
            /\ blocks[j].rich_text[1].has_text
            /\ trimmed(blocks[j].rich_text[1].content)

\* C15 witness: a call has returned a block from a line that starts and
\* ends with a space and a heading from a line with nothing after its
\* prefix.
C15_Witness ==
    /\ pc = "done"
    /\ \E j \in 1..Len(blocks) :
          /\ lines[origin[j] + 1] = <<" ", "-", " ", "a", " ">>
          /\ blocks[j] = text_block("paragraph", <<"-", " ", "a">>)
    /\ \E j \in 1..Len(blocks) :
          /\ lines[origin[j] + 1] = <<"#", "#", " ">>
          /\ blocks[j] = text_block("heading_2", <<>>)

\* the types of the blocks the parser can produce
parser_types ==
    {"heading_2", "heading_3", "bulleted_list_item", "numbered_list_item",
     "code", "paragraph"}

\* C17: parser output variants.  Every block the parser produces has a type
\* in {heading_2, heading_3, bulleted_list_item, numbered_list_item, code,
\* paragraph}; it never produces to_do, quote or heading_1, even for lines
\* that start with "- [ ] ", "- [x] " or "> ": such a line outside a code
\* fence gives a bulleted_list_item or a paragraph.
C17_ParserVariants ==
    /\ \A j \in 1..Len(blocks) : blocks[j].type \in parser_types
    /\ pc = "done" =>
          \A k \in outside_lines :
              /\ (\/ startswith(lines[k + 1], <<"-", " ", "[", " ", "]", " ">>)
                  \/ startswith(lines[k + 1], <<"-", " ", "[", "x", "]", " ">>)) =>
                    \E j \in blocks_from(k) : blocks[j].type = "bulleted_list_item"
              /\ startswith(lines[k + 1], <<">", " ">>) =>
                    \E j \in blocks_from(k) : blocks[j].type = "paragraph"

\* C17 witness: a call has returned blocks from a line "- [x] a", from a
\* line "- [ ] a" and from a line "> a".
C17_Witness ==
    /\ pc = "done"
    /\ \E k \in outside_lines :
          lines[k + 1] = <<"-", " ", "[", "x", "]", " ", "a">> /\ blocks_from(k) # {}
    /\ \E k \in outside_lines :
          lines[k + 1] = <<"-", " ", "[", " ", "]", " ", "a">> /\ blocks_from(k) # {}
    /\ \E k \in outside_lines :
          lines[k + 1] = <<">", " ", "a">> /\ blocks_from(k) # {}

\* seq is longer by k elements, added at the end
extends_by(seq_after, seq_before, k) ==
    /\ Len(seq_after) = Len(seq_before) + k
    /\ SubSeq(seq_after, 1, Len(seq_before)) = seq_before

\* C16: order preservation.  At every step of the parser's scan the block
\* sequence is left as it is or grows by one block appended at the end, so
\* the blocks follow the order of the source lines they come from; and the
\* serializer goes through the array by increasing index, each step adding
\* at the end of the output the markdown form of the block at that index,
\* so no form is reordered or emitted twice.
C16_OrderPreserved ==
    [][ /\ blocks' = blocks \/ extends_by(blocks', blocks, 1)
        /\ \A a, b \in 1..Len(origin') : a < b => origin'[a] < origin'[b]
        /\ bi' = bi \/ (bi' = bi + 1 /\ bi < Len(in_blocks))
        /\ in_blocks' = in_blocks
        /\ \E k \in 0..4 : extends_by(md_lines', md_lines, k)
        /\ bi' = bi => md_lines' = md_lines \/ pc = "convert_start"
        /\ bi' = bi + 1 =>
              IF in_blocks[bi + 1].type \in handled_types
              THEN LET form == claimed_form(in_blocks[bi + 1])
                   IN  /\ Len(appended) >= Len(form)
                       /\ SubSeq(appended, 1, Len(form)) = form
              ELSE appended = <<>>
      ]_vars

\* C16 witness: a document of three blocks with three types has been
\* serialized, and the parser has returned three blocks from three
\* different lines of the result.
C16_Witness ==
    /\ pc = "done"
    /\ Len(in_blocks) = 3
    /\ Cardinality({in_blocks[j].type : j \in 1..3}) = 3
    /\ Len(md_lines) >= 5
    /\ Len(blocks) = 3
    /\ origin[1] < origin[2] /\ origin[2] < origin[3]
    /\ \A j \in 1..3 : blocks[j].type = in_blocks[j].type

\* C18: at most one title.  The title is taken from exactly one line: once
\* the title scan is over no step changes it, and a line that starts with
\* "# " after the title line, read outside a code fence, gives one
\* paragraph whose text is the whole trimmed line, "# " included.
C18_OneTitle ==
    [][ /\ pc # "parse_start" => title' = title
        /\ pc' = "done" =>
              \A k \in outside_lines' :
                  startswith(lines'[k + 1], <<"#", " ">>) =>
                      /\ k >= content_start_idx'
                      /\ \E j \in 1..Len(blocks') :
                            /\ \A m \in 1..Len(blocks') : origin'[m] = k <=> m = j
                            /\ blocks'[j] = text_block("paragraph", strip(lines'[k + 1]))
                            /\ startswith(text_of(blocks'[j]), <<"#", " ">>)
      ]_vars

\* C18 witness: a call has returned a title from one line and a paragraph
\* from a later line that starts with "# ", on an input with two such
\* lines.
C18_Witness ==
    /\ pc = "done"
    /\ title = <<"t">>
    /\ Cardinality(title_marked) = 2
    /\ \E k \in outside_lines \cap title_marked :
          \E j \in blocks_from(k) :
              blocks[j].type = "paragraph" /\ startswith(text_of(blocks[j]), <<"#", " ">>)

\* C20: the parser's output is a fixed point of serialize-then-parse.  For
\* every markdown input m with (blocks, title) = parse(m), parsing the
\* serialization of (blocks, title) returns the same title and a block
\* sequence equal in length, block types, text contents and code languages.
\* In SpecFixedPoint in_blocks and in_title hold the result of the first
\* parse, and md = out when the second parse has run.
C20_FixedPoint ==
    (pc = "done" /\ md = out) =>
        /\ title = in_title
        /\ Len(blocks) = Len(in_blocks)
        /\ \A j \in 1..Len(in_blocks) :
              /\ j <= Len(blocks)
              /\ blocks[j].type = in_blocks[j].type
              /\ text_of(blocks[j]) = text_of(in_blocks[j])
              /\ language_of(blocks[j]) = language_of(in_blocks[j])

\* the calls in progress: the running one and the suspended ones
calls == <<frame>> \o suspended

\* the arguments of the calls, each under the number of its call
arguments ==
    [c \in 1..Len(calls) |->
        LET f == calls[((c - running) % Len(calls)) + 1]
        IN  <<f.md, f.in_blocks, f.in_title>>]

\* a call that has returned has returned what the same call returns alone
alone(f) ==
    /\ f.pc = "done" =>
          /\ f.blocks = parse_markdown_to_blocks(f.md).blocks
          /\ f.title = parse_markdown_to_blocks(f.md).title
    /\ f.pc = "converted" =>
          f.out = convert_blocks_to_markdown(f.in_blocks, f.in_title)
    /\ ~f.err

\* C19: purity under concurrent use.  Under any interleaving of the steps
\* of two calls on one shared converter, a step of a call changes nothing
\* but the frame of that call: not the other call's frame, not the
\* arguments of any call (the input block array among them), not the
\* converter's state; and each call that has returned has returned what
\* the same call returns when it runs alone.
C19_Purity ==
    [][ /\ arguments' = arguments
        /\ markdown_parser' = markdown_parser
        /\ running' = running => suspended' = suspended
        /\ running' # running =>
              /\ frame' = Head(suspended)
              /\ suspended' = Append(Tail(suspended), frame)
        /\ \A c \in 1..Len(calls') : alone(calls'[c])
      ]_vars

\* C19 witness: two calls of parse_markdown_to_blocks on inputs with code
\* fences have both returned, the second one first, and the first call
\* ran after the second had started.
C19_Witness ==
    /\ running = 1
    /\ pc = "done"
    /\ Len(suspended) = 1
    /\ suspended[1].pc = "done"
    /\ md # suspended[1].md
    /\ \E j \in 1..Len(blocks) : blocks[j].type = "code"
    /\ \E j \in 1..Len(suspended[1].blocks) : suspended[1].blocks[j].type = "code"

\* C19 witness of a mixed pair: a call of convert_blocks_to_markdown has
\* returned while a call of parse_markdown_to_blocks is inside a code
\* fence.
C19_WitnessMixed ==
    /\ pc = "converted"
    /\ Len(suspended) = 1
    /\ suspended[1].pc = "fence"
    /\ suspended[1].code_lines # <<>>

\* the step-by-step parser returns what parse_markdown_to_blocks gives
ParserIsFunction ==
    pc = "done" =>
        /\ blocks = parse_markdown_to_blocks(md).blocks
        /\ title = parse_markdown_to_blocks(md).title

\* the fence pairing of the input, read from its first line: fenced[k] says
\* that line k comes after an opening fence that no line before k closes
fenced[k \in 0..(Len(lines) - 1)] ==
    IF k = 0 THEN FALSE
    ELSE IF startswith(lines[k], FENCE) THEN ~fenced[k - 1] ELSE fenced[k - 1]

\* the opening fence of the fence that contains line k
opener_of(k) ==
    CHOOSE o \in 0..(k - 1) :
        /\ ~fenced[o]
        /\ startswith(lines[o + 1], FENCE)
        /\ \A m \in (o + 1)..k : fenced[m]

\* the lines that start with "# " and lie between an opening fence and its
\* closing fence
titles_in_fence ==
    {k \in 0..(Len(lines) - 1) :
        fenced[k] /\ startswith(lines[k + 1], <<"#", " ">>) /\ closers(k) # {}}

\* C21: a line that begins with "# " and lies between an opening code fence
\* and its closing fence is code content, not a title: it does not set the
\* title, and the fence that contains it is emitted as a code block whose
\* text is the lines between the two fences, that line included.
C21_TitleInFence ==
    pc = "done" =>
        \A k \in titles_in_fence :
            /\ content_start_idx # k + 1
            /\ \E j \in code_blocks :
                  /\ origin[j] = opener_of(k)
                  /\ text_of(blocks[j]) =
                        join_lines(SubSeq(lines, opener_of(k) + 2, closer(k)))

\* the line of the input that line k of the scanned list comes from
raw_line(k) == raw_lines[k + leading_lines + 1]

\* the scanned lines that come from an input line which is not blank and
\* whose first character is whitespace
indented_lines ==
    {k \in 0..(Len(lines) - 1) :
        /\ raw_line(k) # <<>>
        /\ isspace(raw_line(k)[1])
        /\ \E p \in 1..Len(raw_line(k)) : ~isspace(raw_line(k)[p])}

\* line k is not the title line and, when it is read outside a code fence,
\* gives one paragraph that holds the trimmed line
plain_paragraph(k) ==
    /\ content_start_idx # k + 1
    /\ k \in outside_lines =>
          \E j \in 1..Len(blocks) :
              /\ blocks_from(k) = {j}
              /\ blocks[j] = text_block("paragraph", strip(raw_line(k)))

\* C22 (as claimed): classification depends only on the line's own
\* characters, not on its position.  For every non-blank line of the input
\* whose first character is whitespace, the parser emits a paragraph
\* holding the trimmed line, never a heading, list item, code fence or
\* title, whether the line is the first line of the input or a later one.
C22_OwnCharacters_Claimed ==
    pc = "done" => \A k \in indented_lines : plain_paragraph(k)

\* C22 (amended): for every non-blank line whose first character is
\* whitespace, other than the first non-blank line of the input, the
\* parser emits a paragraph holding the trimmed line, never a heading, list
\* item, code fence or title.  The first non-blank line is classified
\* without its leading whitespace, the whole input being trimmed before it
\* is split: it is the title line when it then starts with "# ", and
\* otherwise gives the block that the precedence of C4 gives the trimmed
\* line.
C22_OwnCharacters ==
    pc = "done" =>
        /\ \A k \in indented_lines \ {0} : plain_paragraph(k)
        /\ 0 \in indented_lines =>
              LET first == SubSeq(raw_line(0),
                                  CHOOSE p \in 1..Len(raw_line(0)) :
                                      /\ ~isspace(raw_line(0)[p])
                                      /\ \A q \in 1..(p - 1) : isspace(raw_line(0)[q]),
                                  Len(raw_line(0)))
              IN  /\ startswith(first, <<"#", " ">>) =>
                        content_start_idx = 1 /\ 0 \notin outside_lines
                  /\ ~startswith(first, <<"#", " ">>) =>
                        /\ 0 \in outside_lines \/ content_start_idx > 0
                        /\ 0 \in outside_lines =>
                              \A j \in blocks_from(0) :
                                  blocks[j].type =
                                      claimed_type(IF Len(lines) > 1 THEN first
                                                   ELSE rstrip(first))

\* C22 witness: a call has returned on an input whose first line and
\* second line are both " - a ": the first gave a bulleted_list_item, the
\* second a paragraph.
C22_Witness ==
    /\ pc = "done"
    /\ Len(raw_lines) >= 2
    /\ raw_lines[1] = <<" ", "-", " ", "a", " ">>
    /\ raw_lines[2] = <<" ", "-", " ", "a", " ">>
    /\ Len(blocks) >= 2
    /\ blocks[1] = text_block("bulleted_list_item", <<"a">>)
    /\ blocks[2] = text_block("paragraph", <<"-", " ", "a">>)

\* C23: resource URI round trip on the server.  Every URI that
\* handle_list_resources emits passes the URI validation of
\* handle_read_resource: it is not rejected with "Unsupported URI scheme",
\* "Invalid URI format" or "Unknown resource type", and the handler calls
\* the API for a database or a page, as listed, with the id that was
\* listed.
C23_UriRoundTrip ==
    (/\ request.handler = "read_resource"
     /\ request.listed > 0
     /\ spc = "returned") =>
        /\ response.text \notin
              {"Unsupported URI scheme: ", "Invalid URI format: ",
               "Error reading resource: Unknown resource type: "}
        /\ api_log # <<>>
        /\ api_log[1].id = resources[request.listed].id
        /\ api_log[1].call =
              (IF resources[request.listed].mimeType = "application/json"
               THEN "databases.retrieve" ELSE "pages.retrieve")

\* the names handle_call_tool knows
known_tools == {"search_notion", "create_page", "update_page", "query_database"}

\* the texts the except clauses of handle_call_tool return
error_texts == {"Notion API error: ", "Error: "}

\* the calls of the log that the API answered with a failure
failed_calls == {k \in DOMAIN api_log : api_log[k].outcome # "ok"}

\* the calls of the log that append children to a page
append_calls ==
    {k \in DOMAIN api_log : api_log[k].call = "blocks.children.append"}

\* C24: handle_call_tool never propagates an exception and returns a text
\* result for every tool name and argument map. With the client unset the
\* text is "Error: Notion client not initialized" and no API call was made;
\* with a name outside the four tools it is "Unknown tool: <name>" and no
\* API call was made; when an API call failed it is an error text. In
\* create_page the children are appended only after pages.create succeeded,
\* to the page it created, so when the append fails the handler returns an
\* error text while the page exists without children.
C24_ToolErrors ==
    /\ \A k \in append_calls :
          /\ k = 2
          /\ request.name = "create_page"
          /\ api_log[1].call = "pages.create"
          /\ api_log[1].outcome = "ok"
          /\ Len(workspace.created) = 1
          /\ api_log[k].id = workspace.created[1].id
    /\ spc = "returned" =>
          /\ response.kind = "return"
          /\ ~notion_client =>
                /\ response.text = "Error: Notion client not initialized"
                /\ api_log = <<>>
                /\ workspace.created = <<>>
          /\ (notion_client /\ request.name \notin known_tools) =>
                /\ response.text = "Unknown tool: "
                /\ response.name = request.name
                /\ api_log = <<>>
          /\ failed_calls # {} => response.text \in error_texts
          /\ \A k \in failed_calls :
                api_log[k].outcome = "APIResponseError" =>
                    response.text = "Notion API error: "
          /\ \A k \in append_calls \cap failed_calls :
                /\ response.text \in error_texts
                /\ workspace.created[1].children = <<>>

\* a create_page call whose page was created and whose append failed
C24_Witness ==
    /\ spc = "returned"
    /\ notion_client
    /\ request.name = "create_page"
    /\ Len(api_log) = 2
    /\ api_log[1].call = "pages.create"
    /\ api_log[1].outcome = "ok"
    /\ api_log[2].call = "blocks.children.append"
    /\ api_log[2].outcome = "Exception"
    /\ response = [kind |-> "return", text |-> "Error: "]
    /\ Len(workspace.created) = 1
    /\ workspace.created[1].children = <<>>

====
